---- MODULE Spec2Model ----
(***************************************************************************)
(* A model of the xtask binary of the template repository                  *)
(* (src/xtask/src/main.rs): the name validators, the file substitution     *)
(* engine, the bootstrap orchestrator and the lint dispatcher.             *)
(*                                                                         *)
(* A string is a sequence of characters.  A character is denoted by a      *)
(* TLA+ string: an ASCII character by itself ("a", "/", " "), any other    *)
(* Unicode scalar value by its code point ("U+00E9").                      *)
(***************************************************************************)
EXTENDS Integers, Sequences, FiniteSets, TLC

VARIABLES
    pc,        \* the position of the program
    args,      \* the raw command-line flag values, before clap parses them, and the
               \* lines standard input holds where they are fixed at the start
    vals,      \* the values the program holds for project name and account
    stdin,     \* the lines read from standard input so far
    fs,        \* the files of the working directory
    dirs,      \* the directory entries of the working directory
    out,       \* what the program has reported so far
    io,        \* counters of the I/O calls made so far
    path,      \* the executables found on the search path
    start      \* the files and directories as they were when the program started
               \* (its latest invocation, where it is run more than once)

vars == <<pc, args, vals, stdin, fs, dirs, out, io, path, start>>

(***************************************************************************)
(* Bounds of the model.                                                    *)
(***************************************************************************)
MaxLen == 3

MaxContent == 4

MaxPattern == 2

MaxFaults == 1

MaxLines == 4

\* Invocations of one sequence of runs from the same directory.
MaxRuns == 2

\* Pieces a file of the two-substitution steps is made of.
MaxTokens == 3

(***************************************************************************)
(* Option and Result.                                                      *)
(***************************************************************************)
None == [some |-> FALSE]

Some(v) == [some |-> TRUE, v |-> v]

Ok(v) == [ok |-> TRUE, value |-> v]

Err(e) == [ok |-> FALSE, error |-> e]

Unit == "()"

(***************************************************************************)
(* Character classes (core::char).                                         *)
(***************************************************************************)
AsciiDigits == {"0", "1", "2", "3", "4", "5", "6", "7", "8", "9"}

AsciiLower ==
    {"a", "b", "c", "d", "e", "f", "g", "h", "i", "j", "k", "l", "m",
     "n", "o", "p", "q", "r", "s", "t", "u", "v", "w", "x", "y", "z"}

AsciiUpper ==
    {"A", "B", "C", "D", "E", "F", "G", "H", "I", "J", "K", "L", "M",
     "N", "O", "P", "Q", "R", "S", "T", "U", "V", "W", "X", "Y", "Z"}

\* The code points with the Unicode White_Space property, which str::trim strips.
WhiteSpace ==
    {" ", "\t", "\n", "\r", "U+000B", "U+000C", "U+0085", "U+00A0", "U+1680",
     "U+2000", "U+2001", "U+2002", "U+2003", "U+2004", "U+2005", "U+2006",
     "U+2007", "U+2008", "U+2009", "U+200A", "U+2028", "U+2029", "U+202F",
     "U+205F", "U+3000"}

is_ascii_digit(ch) == ch \in AsciiDigits

is_ascii_alphabetic(ch) == ch \in AsciiLower \cup AsciiUpper

is_ascii_alphanumeric(ch) == is_ascii_alphabetic(ch) \/ is_ascii_digit(ch)

is_whitespace(ch) == ch \in WhiteSpace

(***************************************************************************)
(* str::trim: strip the leading, then the trailing white space.            *)
(***************************************************************************)
RECURSIVE trim_start(_)
trim_start(s) ==
    IF s # <<>> /\ is_whitespace(Head(s)) THEN trim_start(Tail(s)) ELSE s

RECURSIVE trim_end(_)
trim_end(s) ==
    IF s # <<>> /\ is_whitespace(s[Len(s)])
    THEN trim_end(SubSeq(s, 1, Len(s) - 1))
    ELSE s

trim(s) == trim_end(trim_start(s))

(***************************************************************************)
(* parse_project_name: the checks of the code in their order, each with    *)
(* its early return.                                                       *)
(***************************************************************************)
\* The loop `for ch in chars`: the first character the loop rejects, if any.
RECURSIVE first_invalid(_)
first_invalid(chars) ==
    IF chars = <<>> THEN None
    ELSE IF ~(is_ascii_alphanumeric(Head(chars)) \/ Head(chars) = "-" \/ Head(chars) = "_")
         THEN Some(Head(chars))
         ELSE first_invalid(Tail(chars))

\* parse_project_name without the loop over the later characters.
parse_project_name_first_only(raw) ==
    LET name == trim(raw) IN
    IF name = <<>> THEN Err(<<"project name cannot be empty">>)
    ELSE LET ch == Head(name) IN
         IF is_ascii_digit(ch)
         THEN Err(<<"the name cannot start with a digit", ch>>)
         ELSE IF ~(is_ascii_alphabetic(ch) \/ ch = "_")
         THEN Err(<<"the first character must be a letter or _", ch>>)
         ELSE Ok(name)

parse_project_name(raw) ==
    LET name == trim(raw) IN
    IF name = <<>> THEN Err(<<"project name cannot be empty">>)
    ELSE LET ch == Head(name)
             chars == Tail(name)
         IN  IF is_ascii_digit(ch)
             THEN Err(<<"the name cannot start with a digit", ch>>)
             ELSE IF ~(is_ascii_alphabetic(ch) \/ ch = "_")
             THEN Err(<<"the first character must be a letter or _", ch>>)
             ELSE LET bad == first_invalid(chars) IN
                  IF bad.some
                  THEN Err(<<"invalid character", bad.v>>)
                  ELSE Ok(name)

\* parse_github_account trimming the leading white space only.
parse_github_account_trim_start(raw) ==
    LET account_name == trim_start(raw) IN
    IF account_name = <<>>
    THEN Err(<<"GitHub account name cannot be empty">>)
    ELSE Ok(account_name)

parse_github_account(raw) ==
    LET account_name == trim(raw) IN
    IF account_name = <<>>
    THEN Err(<<"GitHub account name cannot be empty">>)
    ELSE Ok(account_name)

(***************************************************************************)
(* The validators on their own: every string of at most MaxLen characters  *)
(* over an alphabet with one character or more of each class the           *)
(* validators tell apart.                                                  *)
(***************************************************************************)
Alphabet == {"a", "Z", "7", "_", "-", " ", "@", "U+00E9", "U+3000"}

StringsUpTo(n, alphabet) == UNION {[1..k -> alphabet] : k \in 0..n}

Idle == [project_name |-> None, github_account |-> None]

InitValidate ==
    /\ pc = "validate"
    /\ \E s \in StringsUpTo(MaxLen, Alphabet) :
           args = [project_name |-> Some(s), github_account |-> Some(s)]
    /\ vals = Idle
    /\ stdin = <<>>
    /\ fs = <<>>
    /\ dirs = <<>>
    /\ out = <<>>
    /\ io = <<>>
    /\ path = {}
    /\ start = <<>>

ValidateProjectName ==
    /\ pc = "validate"
    /\ ~vals.project_name.some
    /\ vals' = [vals EXCEPT !.project_name = Some(parse_project_name(args.project_name.v))]
    /\ UNCHANGED <<pc, args, stdin, fs, dirs, out, io, path, start>>

ValidateGithubAccount ==
    /\ pc = "validate"
    /\ ~vals.github_account.some
    /\ vals' = [vals EXCEPT !.github_account = Some(parse_github_account(args.github_account.v))]
    /\ UNCHANGED <<pc, args, stdin, fs, dirs, out, io, path, start>>

NextValidate == ValidateProjectName \/ ValidateGithubAccount

SpecValidate == InitValidate /\ [][NextValidate]_vars

(***************************************************************************)
(* str::contains and str::replace with a string pattern.  The empty        *)
(* pattern matches at every character boundary.                            *)
(***************************************************************************)
starts_with(s, pat) == Len(pat) <= Len(s) /\ SubSeq(s, 1, Len(pat)) = pat

contains(s, pat) == \E i \in 1..(Len(s) - Len(pat) + 1) : SubSeq(s, i, i + Len(pat) - 1) = pat

RECURSIVE replace_empty(_, _)
replace_empty(s, to) ==
    IF s = <<>> THEN to ELSE to \o <<Head(s)>> \o replace_empty(Tail(s), to)

RECURSIVE replace_first(_, _, _)
replace_first(s, from, to) ==
    IF Len(s) < Len(from) THEN s
    ELSE IF starts_with(s, from) THEN to \o SubSeq(s, Len(from) + 1, Len(s))
    ELSE <<Head(s)>> \o replace_first(Tail(s), from, to)

\* The matches are found from the left and do not overlap; the search goes
\* on after the end of each match, in the text not yet replaced.
RECURSIVE replace(_, _, _)
replace(s, from, to) ==
    IF from = <<>> THEN replace_empty(s, to)
    ELSE IF Len(s) < Len(from) THEN s
    ELSE IF starts_with(s, from)
         THEN to \o replace(SubSeq(s, Len(from) + 1, Len(s)), from, to)
         ELSE <<Head(s)>> \o replace(Tail(s), from, to)

(***************************************************************************)
(* The files.  A file is missing, or holds bytes that are no valid UTF-8   *)
(* ("binary"), or holds text; a read-only file cannot be opened for        *)
(* writing.                                                                *)
(***************************************************************************)
TextFile(data, readonly) == [kind |-> "file", data |-> data, readonly |-> readonly]

MissingFile == [kind |-> "missing", data |-> <<>>, readonly |-> FALSE]

BinaryFile == [kind |-> "binary", data |-> <<>>, readonly |-> FALSE]

NoIo == [reads |-> 0, writes |-> 0, lines |-> 0]

read_to_string(files, file) ==
    CASE files[file].kind = "missing" -> Err(<<"No such file or directory">>)
      [] files[file].kind = "binary" -> Err(<<"stream did not contain valid UTF-8">>)
      [] OTHER -> Ok(files[file].data)

\* std::fs::write: the file is opened for writing first, so a refused
\* open leaves it as it was.
fs_write(files, file, content) ==
    IF files[file].readonly
    THEN [result |-> Err(<<"Permission denied">>), files |-> files]
    ELSE [result |-> Ok(Unit), files |-> [files EXCEPT ![file].data = content]]

\* replace_in_file without the `contains` early return.
replace_in_file_always_writes(files, file, old, new) ==
    LET read == read_to_string(files, file) IN
    IF ~read.ok THEN [result |-> read, files |-> files, reads |-> 1, writes |-> 0]
    ELSE LET w == fs_write(files, file, replace(read.value, old, new)) IN
         [result |-> w.result, files |-> w.files, reads |-> 1, writes |-> 1]

\* replace_in_file replacing the first occurrence only.
replace_in_file_first_only(files, file, old, new) ==
    LET read == read_to_string(files, file) IN
    IF ~read.ok THEN [result |-> read, files |-> files, reads |-> 1, writes |-> 0]
    ELSE IF ~contains(read.value, old)
    THEN [result |-> Ok(Unit), files |-> files, reads |-> 1, writes |-> 0]
    ELSE LET w == fs_write(files, file, replace_first(read.value, old, new)) IN
         [result |-> w.result, files |-> w.files, reads |-> 1, writes |-> 1]

\* The result, the files afterwards, and the read and write calls made.
replace_in_file(files, file, old, new) ==
    LET read == read_to_string(files, file) IN
    IF ~read.ok THEN [result |-> read, files |-> files, reads |-> 1, writes |-> 0]
    ELSE IF ~contains(read.value, old)
    THEN [result |-> Ok(Unit), files |-> files, reads |-> 1, writes |-> 0]
    ELSE LET w == fs_write(files, file, replace(read.value, old, new)) IN
         [result |-> w.result, files |-> w.files, reads |-> 1, writes |-> 1]

(***************************************************************************)
(* The substitution engine on its own: one file "f" in any state, any      *)
(* (old, new) pair, and replace_in_file called on it up to twice.          *)
(***************************************************************************)
ContentAlphabet == {"a", "b"}

PatternAlphabet == {"a", "b", "c"}

FileStates ==
    {TextFile(c, ro) : c \in StringsUpTo(MaxContent, ContentAlphabet), ro \in BOOLEAN}
        \cup {MissingFile, BinaryFile}

InitReplace ==
    /\ pc = "replace"
    /\ \E old \in StringsUpTo(MaxPattern, PatternAlphabet),
          new \in StringsUpTo(MaxPattern, PatternAlphabet) :
           args = [old |-> old, new |-> new]
    /\ vals = Idle
    /\ stdin = <<>>
    /\ \E f \in FileStates : fs = [file \in {"f"} |-> f]
    /\ dirs = <<>>
    /\ out = <<>>
    /\ io = NoIo
    /\ path = {}
    /\ start = [fs |-> fs, dirs |-> dirs]

ReplaceInFile ==
    /\ pc = "replace"
    /\ Len(out) < 2
    /\ LET r == replace_in_file(fs, "f", args.old, args.new) IN
        /\ fs' = r.files
        /\ out' = Append(out, r.result)
        /\ io' = [io EXCEPT !.reads = @ + r.reads, !.writes = @ + r.writes]
    /\ UNCHANGED <<pc, args, vals, stdin, dirs, path, start>>

NextReplace == ReplaceInFile

SpecReplace == InitReplace /\ [][NextReplace]_vars

(***************************************************************************)
(* The literals of the program and the names used in the model.            *)
(***************************************************************************)
S_fast == <<"/", "f", "a", "s", "t">>

S_template == <<"t", "e", "m", "p", "l", "a", "t", "e">>

S_slash_template == <<"/">> \o S_template

S_fast_template == S_fast \o S_slash_template

S_xtask == <<"x", "t", "a", "s", "k">>

S_demo == <<"d", "e", "m", "o">>

S_alice == <<"a", "l", "i", "c", "e">>

S_Yes == <<"Y", "e", "s">>

Files == {"Cargo.toml", "template/Cargo.toml", "README.md", ".github/semantic.yml", "Cargo.lock"}

(***************************************************************************)
(* The directory entries of the working directory, by name.  An entry is   *)
(* nothing, a file, an empty directory or a directory with entries; `id`   *)
(* tells which directory of the start it is, so that a replaced directory  *)
(* differs from the one it replaced.                                       *)
(***************************************************************************)
NoEntry == [kind |-> "none", id |-> <<>>]

Entry(kind, id) == [kind |-> kind, id |-> id]

is_dir(entry) == entry.kind \in {"emptydir", "dir"}

\* The files as the paths of the program reach them: `template/Cargo.toml`
\* is there only while `template` is a directory.
reachable(files, entries) ==
    [f \in DOMAIN files |->
        IF f = "template/Cargo.toml" /\ ~is_dir(entries[S_template])
        THEN MissingFile
        ELSE files[f]]

\* std::fs::rename of one entry of the working directory onto another name
\* (rename(2)): a directory replaces an empty directory, and nothing else.
fs_rename(entries, from, to) ==
    CASE entries[from].kind = "none" ->
            [result |-> Err(<<"No such file or directory">>), entries |-> entries]
      [] entries[from].kind # "none" /\ from = to ->
            [result |-> Ok(Unit), entries |-> entries]
      [] entries[from].kind # "none" /\ from # to /\ entries[to].kind = "none" ->
            [result |-> Ok(Unit),
             entries |-> [entries EXCEPT ![to] = entries[from], ![from] = NoEntry]]
      [] is_dir(entries[from]) /\ from # to /\ entries[to].kind = "emptydir" ->
            [result |-> Ok(Unit),
             entries |-> [entries EXCEPT ![to] = entries[from], ![from] = NoEntry]]
      [] is_dir(entries[from]) /\ from # to /\ entries[to].kind = "dir" ->
            [result |-> Err(<<"Directory not empty">>), entries |-> entries]
      [] is_dir(entries[from]) /\ from # to /\ entries[to].kind = "file" ->
            [result |-> Err(<<"Not a directory">>), entries |-> entries]
      [] entries[from].kind = "file" /\ from # to /\ entries[to].kind = "file" ->
            [result |-> Ok(Unit),
             entries |-> [entries EXCEPT ![to] = entries[from], ![from] = NoEntry]]
      [] entries[from].kind = "file" /\ from # to /\ is_dir(entries[to]) ->
            [result |-> Err(<<"Is a directory">>), entries |-> entries]

(***************************************************************************)
(* check_project_root.                                                     *)
(***************************************************************************)
\* check_project_root without the test of the `template` directory.
check_project_root_no_template(files, entries) ==
    IF files["Cargo.toml"].kind = "missing" \/ ~is_dir(entries[S_xtask])
    THEN Err(<<"This command must be run from the project root directory">>)
    ELSE Ok(Unit)

check_project_root(files, entries) ==
    IF files["Cargo.toml"].kind = "missing" \/ ~is_dir(entries[S_xtask])
    THEN Err(<<"This command must be run from the project root directory">>)
    ELSE IF ~is_dir(entries[S_template])
    THEN Err(<<"The 'template' directory not found. This project may have already been bootstrapped.">>)
    ELSE Ok(Unit)

(***************************************************************************)
(* prompt_input and confirm, on the line read from standard input.         *)
(***************************************************************************)
prompt_input(line) == trim(line)

UpperLetters ==
    <<"A", "B", "C", "D", "E", "F", "G", "H", "I", "J", "K", "L", "M",
      "N", "O", "P", "Q", "R", "S", "T", "U", "V", "W", "X", "Y", "Z">>

LowerLetters ==
    <<"a", "b", "c", "d", "e", "f", "g", "h", "i", "j", "k", "l", "m",
      "n", "o", "p", "q", "r", "s", "t", "u", "v", "w", "x", "y", "z">>

\* str::to_lowercase, on the ASCII letters; of the other characters of the
\* model none changes.
to_lowercase(s) ==
    [i \in 1..Len(s) |->
        IF s[i] \in AsciiUpper
        THEN LowerLetters[CHOOSE k \in 1..Len(UpperLetters) : UpperLetters[k] = s[i]]
        ELSE s[i]]

\* A confirmation whose default, on an empty answer, is yes.
confirm_default_yes(line) == to_lowercase(trim(line)) \in {<<>>, <<"y">>, <<"y", "e", "s">>}

confirm(line) == to_lowercase(trim(line)) \in {<<"y">>, <<"y", "e", "s">>}

(***************************************************************************)
(* The six steps of execute_bootstrap.  Each gives the result it reports,  *)
(* the files afterwards and the read and write calls made.                 *)
(***************************************************************************)

\* A chain that makes the second call whatever the first returned, and
\* gives the first error met.
and_then_unconditional(first, old, new, file) ==
    LET second == replace_in_file(first.files, file, old, new) IN
    [result |-> IF first.result.ok THEN second.result ELSE first.result,
     files |-> second.files,
     reads |-> first.reads + second.reads, writes |-> first.writes + second.writes]

\* Result::and_then on two calls of replace_in_file: the second is made on
\* the files the first left, and only if the first returned Ok.
and_then(first, old, new, file) ==
    IF ~first.result.ok THEN first
    ELSE LET second == replace_in_file(first.files, file, old, new) IN
         [result |-> second.result,
          files |-> second.files,
          reads |-> first.reads + second.reads,
          writes |-> first.writes + second.writes]

update_root_cargo_toml(files, project_name, github_account) ==
    and_then(replace_in_file(files, "Cargo.toml", S_fast, <<"/">> \o github_account),
             S_template, project_name, "Cargo.toml")

update_project_cargo_toml(files, project_name) ==
    replace_in_file(files, "template/Cargo.toml", S_template, project_name)

update_readme(files, project_name, github_account) ==
    and_then(replace_in_file(files, "README.md", S_fast, <<"/">> \o github_account),
             S_slash_template, <<"/">> \o project_name, "README.md")

update_semantic_yml(files, project_name, github_account) ==
    replace_in_file(files, ".github/semantic.yml", S_fast_template,
                    <<"/">> \o github_account \o <<"/">> \o project_name)

update_cargo_lock(files, project_name) ==
    replace_in_file(files, "Cargo.lock", S_template, project_name)

\* A last step that copies the directory and leaves `template` in place.
update_project_dir_copy(entries, project_name) ==
    LET renamed == fs_rename(entries, S_template, project_name) IN
    [result |-> renamed.result,
     entries |-> [renamed.entries EXCEPT ![S_template] = entries[S_template]]]

update_project_dir(entries, project_name) ==
    fs_rename(entries, S_template, project_name)

\* print_update_result: what is printed for a step's result.
print_update_result(task, result) ==
    IF result.ok
    THEN [kind |-> "task", task |-> task, outcome |-> "OK"]
    ELSE [kind |-> "task", task |-> task, outcome |-> "ERROR", error |-> result.error]

Message(kind, text) == [kind |-> kind, text |-> text]

(***************************************************************************)
(* The external commands of the dispatcher.                                *)
(***************************************************************************)
Cmd(bin, arguments) == [bin |-> bin, args |-> arguments]

make_build_cmd(locked) ==
    Cmd("cargo", <<"build", "--workspace", "--all-features", "--tests", "--examples",
                   "--benches", "--bins">> \o (IF locked THEN <<"--locked">> ELSE <<>>))

\* CommandTest::run calls make_test_cmd(no_capture, true, &[]).
make_test_cmd(no_capture) ==
    Cmd("cargo", <<"test", "--workspace">>
                 \o (IF no_capture THEN <<"--", "--nocapture">> ELSE <<>>))

make_format_cmd(fix) ==
    Cmd("cargo", <<"fmt", "--all">> \o (IF ~fix THEN <<"--check">> ELSE <<>>))

make_clippy_cmd(fix) ==
    Cmd("cargo", <<"clippy", "--tests", "--all-features", "--all-targets", "--workspace">>
                 \o (IF fix THEN <<"--allow-staged", "--allow-dirty", "--fix">>
                            ELSE <<"--", "-D", "warnings">>))

make_hawkeye_cmd(fix) ==
    Cmd("hawkeye", IF fix THEN <<"format", "--fail-if-updated=false">> ELSE <<"check">>)

make_typos_cmd == Cmd("typos", <<>>)

make_taplo_cmd(fix) ==
    Cmd("taplo", IF fix THEN <<"format">> ELSE <<"format", "--check">>)

\* The crate that ensure_installed installs for an executable, if any.
crate_of(bin) ==
    CASE bin = "hawkeye" -> Some("hawkeye")
      [] bin = "typos" -> Some("typos-cli")
      [] bin = "taplo" -> Some("taplo-cli")
      [] OTHER -> None

Executables == {"cargo", "taplo", "typos", "hawkeye"}

ExitStatuses == {"success", "failure"}

Ran(cmd, status) == [kind |-> "run", cmd |-> cmd, status |-> status]

Panic(text) == [kind |-> "panic", text |-> text]

\* run_command ignoring the exit status.
run_command_unchecked(status) == "continue"

\* run_command: the assert on the exit status.
run_command(status) == IF status = "success" THEN "continue" ELSE "panic"

\* An outcome of a part of the run: what it reported, the search path
\* afterwards, and whether it panicked.
Outcome(events, executables, panicked) ==
    [events |-> events, path |-> executables, panicked |-> panicked]

\* find_command, then run_command on the command made: the executable is
\* not found, or it cannot be started, or it runs and exits.
run_found(executables, cmd) ==
    IF cmd.bin \notin executables
    THEN {Outcome(<<Panic(<<cmd.bin, "not found">>)>>, executables, TRUE)}
    ELSE {Outcome(<<Panic(<<"failed to execute process">>)>>, executables, TRUE)}
             \cup {Outcome(<<Ran(cmd, status)>>, executables, run_command(status) = "panic") :
                       status \in ExitStatuses}

\* ensure_installed: an executable that is missing is installed with
\* `cargo install`; the installed executable may or may not be on the search
\* path afterwards.
ensure_installed(executables, bin, crate_name) ==
    IF bin \in executables
    THEN {Outcome(<<>>, executables, FALSE)}
    ELSE LET installs == run_found(executables, Cmd("cargo", <<"install", crate_name>>)) IN
         {o \in installs : o.panicked}
             \cup UNION {{Outcome(o.events, o.path \cup {bin}, FALSE), o} :
                             o \in {i \in installs : ~i.panicked}}

\* One statement run_command(make_..._cmd(..)) of a subcommand.
run_statement(executables, cmd) ==
    LET crate_name == crate_of(cmd.bin)
        ensured == IF crate_name.some
                   THEN ensure_installed(executables, cmd.bin, crate_name.v)
                   ELSE {Outcome(<<>>, executables, FALSE)}
    IN  {o \in ensured : o.panicked}
            \cup UNION {{Outcome(o.events \o r.events, r.path, r.panicked) :
                             r \in run_found(o.path, cmd)} :
                        o \in {e \in ensured : ~e.panicked}}

(***************************************************************************)
(* clap: Command::parse.  A flag value goes through its value_parser; the  *)
(* first value refused ends the program with a usage error.                *)
(***************************************************************************)
value_parser_unchecked(raw, parsed) == IF raw.some THEN Ok(Some(raw.v)) ELSE Ok(None)

value_parser(raw, parsed) ==
    IF ~raw.some THEN Ok(None)
    ELSE IF parsed.ok THEN Ok(Some(parsed.value)) ELSE parsed

clap_parse(raw_project_name, raw_github_account) ==
    LET project_name ==
            value_parser(raw_project_name,
                         IF raw_project_name.some
                         THEN parse_project_name(raw_project_name.v) ELSE Ok(<<>>))
        github_account ==
            value_parser(raw_github_account,
                         IF raw_github_account.some
                         THEN parse_github_account(raw_github_account.v) ELSE Ok(<<>>))
    IN  IF ~project_name.ok
        THEN Err(<<"invalid value for '--project-name <PROJECT_NAME>'", project_name.error>>)
        ELSE IF ~github_account.ok
        THEN Err(<<"invalid value for '--github-account <GITHUB_ACCOUNT>'", github_account.error>>)
        ELSE Ok([project_name |-> project_name.value, github_account |-> github_account.value])

(***************************************************************************)
(* The program: the states it can start in.                                *)
(***************************************************************************)
Lines == {<<>>, <<" ">> \o S_demo \o <<" ">>, S_template, <<" ">> \o S_Yes}

RawProjectNames == {None, Some(<<" ">> \o S_demo \o <<" ">>), Some(<<"9">> \o S_demo), Some(S_xtask)}

RawGithubAccounts == {None, Some(<<" ">> \o S_alice), Some(<<" ">>)}

Names == {S_template, S_xtask, S_demo, S_Yes}

TemplateContent ==
    [f \in Files |->
        CASE f = "Cargo.toml" -> <<"[">> \o S_template \o <<"]">> \o S_fast_template
          [] f = "template/Cargo.toml" -> S_template
          [] f = "README.md" -> S_fast_template
          [] f = ".github/semantic.yml" -> S_fast_template
          [] f = "Cargo.lock" -> S_template]

Faulty(kind, data) ==
    CASE kind = "missing" -> MissingFile
      [] kind = "binary" -> BinaryFile
      [] kind = "readonly" -> TextFile(data, TRUE)

\* The files of the template, with up to MaxFaults of them missing, not
\* text or read-only.
StartFiles ==
    {[f \in Files |->
        IF f \in DOMAIN faults THEN Faulty(faults[f], TemplateContent[f])
        ELSE TextFile(TemplateContent[f], FALSE)] :
     faults \in UNION {[F -> {"missing", "binary", "readonly"}] :
                          F \in {G \in SUBSET Files : Cardinality(G) <= MaxFaults}}}

StartDirs ==
    {[n \in Names |->
        CASE n = S_template -> IF t THEN Entry("dir", n) ELSE NoEntry
          [] n = S_xtask -> IF x THEN Entry("dir", n) ELSE NoEntry
          [] n = S_demo -> IF d = "none" THEN NoEntry ELSE Entry(d, n)
          [] OTHER -> NoEntry] :
     t \in BOOLEAN, x \in BOOLEAN, d \in {"none", "file", "emptydir", "dir"}}

InitBootstrap ==
    /\ pc = "main"
    /\ \E p \in RawProjectNames, a \in RawGithubAccounts :
           args = [sub |-> "bootstrap", project_name |-> p, github_account |-> a, flag |-> FALSE]
    /\ vals = Idle
    /\ stdin = <<>>
    /\ fs \in StartFiles
    /\ dirs \in StartDirs
    /\ fs["template/Cargo.toml"].kind # "missing" => is_dir(dirs[S_template])
    /\ out = <<>>
    /\ io = NoIo
    /\ path = {}
    /\ start = [fs |-> fs, dirs |-> dirs]

InitDispatch ==
    /\ pc = "main"
    /\ \E sub \in {"build", "lint", "test"}, flag \in BOOLEAN :
           args = [sub |-> sub, project_name |-> None, github_account |-> None, flag |-> flag]
    /\ vals = Idle
    /\ stdin = <<>>
    /\ fs = [f \in Files |-> TextFile(TemplateContent[f], FALSE)]
    /\ dirs = [n \in Names |-> IF n \in {S_template, S_xtask} THEN Entry("dir", n) ELSE NoEntry]
    /\ out = <<>>
    /\ io = NoIo
    /\ path \in SUBSET Executables
    /\ start = [fs |-> fs, dirs |-> dirs]

Init == InitBootstrap \/ InitDispatch

(***************************************************************************)
(* main: Command::parse, then the subcommand's run.                        *)
(***************************************************************************)
ParseArgs ==
    /\ pc = "main"
    /\ IF args.sub = "bootstrap"
       THEN LET parsed == clap_parse(args.project_name, args.github_account) IN
            IF parsed.ok
            THEN /\ vals' = parsed.value
                 /\ pc' = "bootstrap_project"
                 /\ out' = out
            ELSE /\ vals' = vals
                 /\ pc' = "exit_usage"
                 /\ out' = Append(out, Message("usage", parsed.error))
       ELSE /\ vals' = vals
            /\ pc' = args.sub
            /\ out' = out
    /\ UNCHANGED <<args, stdin, fs, dirs, io, path, start>>

\* One statement run_command(make_..._cmd(..)) has run: it panicked, or the
\* next statement follows.
Proceed(outcome, next) ==
    /\ out' = out \o outcome.events
    /\ path' = outcome.path
    /\ pc' = IF outcome.panicked THEN "panicked" ELSE next
    /\ UNCHANGED <<args, vals, stdin, fs, dirs, io, start>>

RunBuild ==
    /\ pc = "build"
    /\ \E o \in run_statement(path, make_build_cmd(args.flag)) : Proceed(o, "returned")

RunTest ==
    /\ pc = "test"
    /\ \E o \in run_statement(path, make_test_cmd(args.flag)) : Proceed(o, "returned")

LintClippy ==
    /\ pc = "lint"
    /\ \E o \in run_statement(path, make_clippy_cmd(args.flag)) : Proceed(o, "lint_format")

LintFormat ==
    /\ pc = "lint_format"
    /\ \E o \in run_statement(path, make_format_cmd(args.flag)) : Proceed(o, "lint_taplo")

LintTaplo ==
    /\ pc = "lint_taplo"
    /\ \E o \in run_statement(path, make_taplo_cmd(args.flag)) : Proceed(o, "lint_typos")

LintTypos ==
    /\ pc = "lint_typos"
    /\ \E o \in run_statement(path, make_typos_cmd) : Proceed(o, "lint_hawkeye")

LintHawkeye ==
    /\ pc = "lint_hawkeye"
    /\ \E o \in run_statement(path, make_hawkeye_cmd(args.flag)) : Proceed(o, "returned")

(***************************************************************************)
(* bootstrap_project.                                                      *)
(***************************************************************************)
\* Where prepare_inputs goes on: to the first value still missing, else to
\* preview_and_confirm.
after_inputs(values) ==
    IF ~values.project_name.some THEN "get_project_name"
    ELSE IF ~values.github_account.some THEN "get_github_account"
    ELSE "preview_and_confirm"

CheckProjectRoot ==
    /\ pc = "bootstrap_project"
    /\ LET checked == check_project_root(reachable(fs, dirs), dirs) IN
       IF checked.ok
       THEN /\ out' = Append(out, Message("title", "Template Project Bootstrapper"))
            /\ pc' = after_inputs(vals)
       ELSE /\ out' = Append(out, Message("error", checked.error))
            /\ pc' = "returned"
    /\ UNCHANGED <<args, vals, stdin, fs, dirs, io, path, start>>

\* A loop that gives up on the first line the validator rejects.
get_valid_input_gives_up(line, validated, field) ==
    /\ stdin' = Append(stdin, line)
    /\ io' = [io EXCEPT !.lines = @ + 1]
    /\ IF validated.ok
       THEN /\ vals' = [vals EXCEPT ![field] = Some(validated.value)]
            /\ pc' = after_inputs(vals')
            /\ out' = out
       ELSE /\ vals' = vals
            /\ pc' = "returned"
            /\ out' = Append(out, Message("error", validated.error))
    /\ UNCHANGED <<args, fs, dirs, path, start>>

\* One turn of the loop of get_valid_input, on the line read and what the
\* validator made of it: the value is returned, or the error is shown and
\* the loop goes on.
get_valid_input(line, validated, field) ==
    /\ stdin' = Append(stdin, line)
    /\ io' = [io EXCEPT !.lines = @ + 1]
    /\ IF validated.ok
       THEN /\ vals' = [vals EXCEPT ![field] = Some(validated.value)]
            /\ pc' = after_inputs(vals')
            /\ out' = out
       ELSE /\ vals' = vals
            /\ pc' = pc
            /\ out' = Append(out, Message("error", validated.error))
    /\ UNCHANGED <<args, fs, dirs, path, start>>

GetProjectName ==
    /\ pc = "get_project_name"
    /\ io.lines < MaxLines
    /\ \E line \in Lines :
           get_valid_input(line, parse_project_name(prompt_input(line)), "project_name")

GetGithubAccount ==
    /\ pc = "get_github_account"
    /\ io.lines < MaxLines
    /\ \E line \in Lines :
           get_valid_input(line, parse_github_account(prompt_input(line)), "github_account")

\* preview_and_confirm on the answer read by confirm: the preview is shown,
\* then the batch rename is announced or the run is cancelled.
preview_and_confirm(line) ==
    /\ stdin' = Append(stdin, line)
    /\ io' = [io EXCEPT !.lines = @ + 1]
    /\ IF confirm(line)
       THEN /\ out' = out \o <<Message("preview", <<vals.project_name.v, vals.github_account.v>>),
                               Message("info", "Starting batch rename...")>>
            /\ pc' = "update_root_cargo_toml"
       ELSE /\ out' = out \o <<Message("preview", <<vals.project_name.v, vals.github_account.v>>),
                               Message("info", "Cancelled.")>>
            /\ pc' = "returned"
    /\ UNCHANGED <<args, vals, fs, dirs, path, start>>

PreviewAndConfirm ==
    /\ pc = "preview_and_confirm"
    /\ io.lines < MaxLines
    /\ \E line \in Lines : preview_and_confirm(line)

(***************************************************************************)
(* execute_bootstrap: the six steps, then print_bootstrap_complete.        *)
(***************************************************************************)
\* A step on a file that ends the run when it fails.
UpdateFile_stop_on_error(task, updated, next) ==
    /\ fs' = [f \in Files |-> IF f = task THEN updated.files[f] ELSE fs[f]]
    /\ io' = [io EXCEPT !.reads = @ + updated.reads, !.writes = @ + updated.writes]
    /\ out' = Append(out, print_update_result(task, updated.result))
    /\ pc' = IF updated.result.ok THEN next ELSE "returned"
    /\ UNCHANGED <<args, vals, stdin, dirs, path, start>>

\* A step on a file: its result is reported, and the next step follows.
UpdateFile(task, updated, next) ==
    /\ fs' = [f \in Files |-> IF f = task THEN updated.files[f] ELSE fs[f]]
    /\ io' = [io EXCEPT !.reads = @ + updated.reads, !.writes = @ + updated.writes]
    /\ out' = Append(out, print_update_result(task, updated.result))
    /\ pc' = next
    /\ UNCHANGED <<args, vals, stdin, dirs, path, start>>

UpdateRootCargoToml ==
    /\ pc = "update_root_cargo_toml"
    /\ UpdateFile("Cargo.toml",
                  update_root_cargo_toml(reachable(fs, dirs), vals.project_name.v, vals.github_account.v),
                  "update_project_cargo_toml")

UpdateProjectCargoToml ==
    /\ pc = "update_project_cargo_toml"
    /\ UpdateFile("template/Cargo.toml",
                  update_project_cargo_toml(reachable(fs, dirs), vals.project_name.v),
                  "update_readme")

UpdateReadme ==
    /\ pc = "update_readme"
    /\ UpdateFile("README.md",
                  update_readme(reachable(fs, dirs), vals.project_name.v, vals.github_account.v),
                  "update_semantic_yml")

UpdateSemanticYml ==
    /\ pc = "update_semantic_yml"
    /\ UpdateFile(".github/semantic.yml",
                  update_semantic_yml(reachable(fs, dirs), vals.project_name.v, vals.github_account.v),
                  "update_cargo_lock")

UpdateCargoLock ==
    /\ pc = "update_cargo_lock"
    /\ UpdateFile("Cargo.lock",
                  update_cargo_lock(reachable(fs, dirs), vals.project_name.v),
                  "update_project_dir")

UpdateProjectDir ==
    /\ pc = "update_project_dir"
    /\ LET renamed == update_project_dir(dirs, vals.project_name.v) IN
       /\ dirs' = renamed.entries
       /\ out' = Append(out, print_update_result("template/", renamed.result))
    /\ pc' = "print_bootstrap_complete"
    /\ UNCHANGED <<args, vals, stdin, fs, io, path, start>>

PrintBootstrapComplete ==
    /\ pc = "print_bootstrap_complete"
    /\ out' = Append(out, Message("info", "Bootstrap completed!"))
    /\ pc' = "returned"
    /\ UNCHANGED <<args, vals, stdin, fs, dirs, io, path, start>>

NextBootstrap ==
    \/ CheckProjectRoot
    \/ GetProjectName
    \/ GetGithubAccount
    \/ PreviewAndConfirm
    \/ UpdateRootCargoToml
    \/ UpdateProjectCargoToml
    \/ UpdateReadme
    \/ UpdateSemanticYml
    \/ UpdateCargoLock
    \/ UpdateProjectDir
    \/ PrintBootstrapComplete

NextDispatch ==
    \/ RunBuild
    \/ RunTest
    \/ LintClippy
    \/ LintFormat
    \/ LintTaplo
    \/ LintTypos
    \/ LintHawkeye

Next == ParseArgs \/ NextBootstrap \/ NextDispatch

Spec == Init /\ [][Next]_vars

(***************************************************************************)
(* get_valid_input on a given input: the lines that standard input holds   *)
(* are fixed at the start, and one of the two values is asked for.         *)
(***************************************************************************)
PromptLines == {<<" ">>, <<" ">> \o S_demo \o <<" ">>, <<"9">> \o S_demo}

Scripts == UNION {[1..k -> PromptLines] : k \in 0..MaxLines}

\* stdin().read_line after n lines were read: the next line, or nothing at
\* the end of the input (read_line returns Ok(0) and leaves the buffer empty).
read_line(script, n) == IF n < Len(script) THEN script[n + 1] ELSE <<>>

InitPrompt ==
    /\ \E script \in Scripts, p \in {None, Some(S_demo)} :
           /\ args = [sub |-> "bootstrap", project_name |-> p,
                      github_account |-> IF p.some THEN None ELSE Some(S_alice),
                      flag |-> FALSE, lines |-> script]
           /\ vals = [project_name |-> args.project_name, github_account |-> args.github_account]
    /\ pc = after_inputs(vals)
    /\ stdin = <<>>
    /\ fs = [f \in Files |-> TextFile(TemplateContent[f], FALSE)]
    /\ dirs = [n \in Names |-> IF n \in {S_template, S_xtask} THEN Entry("dir", n) ELSE NoEntry]
    /\ out = <<>>
    /\ io = NoIo
    /\ path = {}
    /\ start = [fs |-> fs, dirs |-> dirs]

PromptProjectName ==
    /\ pc = "get_project_name"
    /\ io.lines < MaxLines
    /\ LET line == read_line(args.lines, io.lines) IN
           get_valid_input(line, parse_project_name(prompt_input(line)), "project_name")

PromptGithubAccount ==
    /\ pc = "get_github_account"
    /\ io.lines < MaxLines
    /\ LET line == read_line(args.lines, io.lines) IN
           get_valid_input(line, parse_github_account(prompt_input(line)), "github_account")

NextPrompt == PromptProjectName \/ PromptGithubAccount

\* The loop is the only thing the process does while it prompts: a turn
\* that can be taken is taken.
SpecPrompt == InitPrompt /\ [][NextPrompt]_vars /\ WF_vars(NextPrompt)

(***************************************************************************)
(* bootstrap_project from the confirmation on: both values came validated  *)
(* from the flags, the project root was found, and the operator answers.   *)
(***************************************************************************)
Answers ==
    {<<>>, <<" ">>, <<"y">>, <<"Y">>, <<" ", "y", "U+3000">>, <<"y", "e", "s">>, <<" ">> \o S_Yes,
     <<"Y", "E", "S", " ">>, <<"y", "E", "s">>, <<"n">>, <<"N", "o">>, <<"y", "e">>, <<"y", "y">>,
     <<"y", " ", "e", "s">>, <<"y", "e", "s", "!">>, <<"U+00E9">>}

InitConfirm ==
    /\ pc = "preview_and_confirm"
    /\ args = [sub |-> "bootstrap", project_name |-> Some(S_demo), github_account |-> Some(S_alice),
               flag |-> FALSE]
    /\ vals = clap_parse(args.project_name, args.github_account).value
    /\ stdin = <<>>
    /\ fs \in StartFiles
    /\ dirs \in StartDirs
    /\ fs["template/Cargo.toml"].kind # "missing" => is_dir(dirs[S_template])
    /\ check_project_root(reachable(fs, dirs), dirs).ok
    /\ out = <<Message("title", "Template Project Bootstrapper")>>
    /\ io = NoIo
    /\ path = {}
    /\ start = [fs |-> fs, dirs |-> dirs]

AnswerConfirmation ==
    /\ pc = "preview_and_confirm"
    /\ io.lines < MaxLines
    /\ \E line \in Answers : preview_and_confirm(line)

NextConfirm ==
    \/ AnswerConfirmation
    \/ UpdateRootCargoToml
    \/ UpdateProjectCargoToml
    \/ UpdateReadme
    \/ UpdateSemanticYml
    \/ UpdateCargoLock
    \/ UpdateProjectDir
    \/ PrintBootstrapComplete

SpecConfirm == InitConfirm /\ [][NextConfirm]_vars

(***************************************************************************)
(* bootstrap run again and again from the same directory: each invocation  *)
(* is a new process on the files and directories the last one left.        *)
(***************************************************************************)
RerunProjectNames == {Some(S_demo), Some(S_template)}

Invoked == Message("invoke", "bootstrap")

Invocations(events) == 1 + Len(SelectSeq(events, LAMBDA e : e = Invoked))

InitRerun ==
    /\ pc = "main"
    /\ \E p \in RerunProjectNames :
           args = [sub |-> "bootstrap", project_name |-> p, github_account |-> Some(S_alice),
                   flag |-> FALSE]
    /\ vals = Idle
    /\ stdin = <<>>
    /\ fs \in StartFiles
    /\ \E d \in {"none", "emptydir", "dir"} :
           dirs = [n \in Names |->
                      CASE n \in {S_template, S_xtask} -> Entry("dir", n)
                        [] n = S_demo -> IF d = "none" THEN NoEntry ELSE Entry(d, n)
                        [] OTHER -> NoEntry]
    /\ out = <<>>
    /\ io = NoIo
    /\ path = {}
    /\ start = [fs |-> fs, dirs |-> dirs]

\* The next invocation: main starts afresh; the output so far stays on the
\* terminal, and the files and directories are as the last run left them.
Reinvoke ==
    /\ pc \in {"returned", "exit_usage"}
    /\ Invocations(out) < MaxRuns
    /\ \E p \in RerunProjectNames : args' = [args EXCEPT !.project_name = p]
    /\ pc' = "main"
    /\ vals' = Idle
    /\ stdin' = <<>>
    /\ io' = NoIo
    /\ out' = Append(out, Invoked)
    /\ start' = [fs |-> fs, dirs |-> dirs]
    /\ UNCHANGED <<fs, dirs, path>>

NextRerun ==
    \/ ParseArgs
    \/ CheckProjectRoot
    \/ PreviewAndConfirm
    \/ UpdateRootCargoToml
    \/ UpdateProjectCargoToml
    \/ UpdateReadme
    \/ UpdateSemanticYml
    \/ UpdateCargoLock
    \/ UpdateProjectDir
    \/ PrintBootstrapComplete
    \/ Reinvoke

SpecRerun == InitRerun /\ [][NextRerun]_vars

(***************************************************************************)
(* execute_bootstrap on a root manifest or a README of any content: the    *)
(* run was confirmed, and one of the two files is not as the template has  *)
(* it.                                                                     *)
(***************************************************************************)
Tokens == {S_fast, S_template, <<"/">>, <<"x">>}

RECURSIVE Concat(_)
Concat(pieces) == IF pieces = <<>> THEN <<>> ELSE Head(pieces) \o Concat(Tail(pieces))

TokenContents == {Concat(pieces) : pieces \in UNION {[1..k -> Tokens] : k \in 0..MaxTokens}}

StepFileStates ==
    {TextFile(c, r) : c \in TokenContents, r \in BOOLEAN} \cup {MissingFile, BinaryFile}

InitSteps ==
    /\ pc = "update_root_cargo_toml"
    /\ \E a \in {S_alice, S_template} :
           args = [sub |-> "bootstrap", project_name |-> Some(S_demo), github_account |-> Some(a),
                   flag |-> FALSE]
    /\ vals = clap_parse(args.project_name, args.github_account).value
    /\ stdin = << <<" ">> \o S_Yes >>
    /\ \E f \in {"Cargo.toml", "README.md"}, state \in StepFileStates :
           fs = [g \in Files |-> IF g = f THEN state ELSE TextFile(TemplateContent[g], FALSE)]
    /\ dirs = [n \in Names |-> IF n \in {S_template, S_xtask} THEN Entry("dir", n) ELSE NoEntry]
    /\ check_project_root(reachable(fs, dirs), dirs).ok
    /\ out = <<Message("title", "Template Project Bootstrapper"),
               Message("preview", <<vals.project_name.v, vals.github_account.v>>),
               Message("info", "Starting batch rename...")>>
    /\ io = [NoIo EXCEPT !.lines = 1]
    /\ path = {}
    /\ start = [fs |-> fs, dirs |-> dirs]

NextSteps ==
    \/ UpdateRootCargoToml
    \/ UpdateProjectCargoToml
    \/ UpdateReadme

SpecSteps == InitSteps /\ [][NextSteps]_vars

(***************************************************************************)
(* What the claims speak of, stated without the code's operators.          *)
(***************************************************************************)
\* t is s without its leading and trailing white space.
IsTrimOf(t, s) ==
    \E i \in 1..(Len(s) + 1), j \in 0..Len(s) :
        /\ t = SubSeq(s, i, j)
        /\ \A k \in 1..(i - 1) : s[k] \in WhiteSpace
        /\ \A k \in (j + 1)..Len(s) : s[k] \in WhiteSpace
        /\ t # <<>> => (t[1] \notin WhiteSpace /\ t[Len(t)] \notin WhiteSpace)

\* t matches [A-Za-z_][A-Za-z0-9_-]*
MatchesNameGrammar(t) ==
    /\ Len(t) >= 1
    /\ t[1] \in AsciiLower \cup AsciiUpper \cup {"_"}
    /\ \A k \in 2..Len(t) : t[k] \in AsciiLower \cup AsciiUpper \cup AsciiDigits \cup {"-", "_"}

SharesNoCharacter(s, t) == \A i \in 1..Len(s), j \in 1..Len(t) : s[i] # t[j]

\* The strings between two positions of s, the candidates for its trimmed form.
Substrings(s) == {SubSeq(s, i, j) : i \in 1..(Len(s) + 1), j \in 0..Len(s)}

\* s is accepted as a project name: its trimmed form matches the grammar.
ValidProjectName(s) == \E t \in Substrings(s) : IsTrimOf(t, s) /\ MatchesNameGrammar(t)

\* s is accepted as an account name: its trimmed form is not empty.
ValidAccountName(s) == ~IsTrimOf(<<>>, s)

\* c with every occurrence of `/fast` replaced by `/` and the account, and
\* every occurrence of `template` by the project name, in one pass.
RECURSIVE Substituted(_, _, _)
Substituted(c, account, project) ==
    IF c = <<>> THEN <<>>
    ELSE IF starts_with(c, S_fast)
    THEN <<"/">> \o account \o Substituted(SubSeq(c, Len(S_fast) + 1, Len(c)), account, project)
    ELSE IF starts_with(c, S_template)
    THEN project \o Substituted(SubSeq(c, Len(S_template) + 1, Len(c)), account, project)
    ELSE <<Head(c)>> \o Substituted(Tail(c), account, project)

IsTask(e) == e.kind = "task"

IsRun(e) == e.kind = "run"

IsCheck(e) == e.kind = "run" /\ (e.cmd.args = <<>> \/ e.cmd.args[1] # "install")

\* The outcomes the steps of execute_bootstrap have reported, in order.
TaskReports == SelectSeq(out, IsTask)

\* The external commands run, and those of them that are lint checks.
Runs == SelectSeq(out, IsRun)

Checks == SelectSeq(out, IsCheck)

\* execute_bootstrap has been entered.
Started == \E i \in 1..Len(out) : out[i] = Message("info", "Starting batch rename...")

StepOrder ==
    <<"Cargo.toml", "template/Cargo.toml", "README.md", ".github/semantic.yml", "Cargo.lock",
      "template/">>

StepPc ==
    <<"update_root_cargo_toml", "update_project_cargo_toml", "update_readme",
      "update_semantic_yml", "update_cargo_lock", "update_project_dir">>

LintOrder ==
    <<make_clippy_cmd(args.flag), make_format_cmd(args.flag), make_taplo_cmd(args.flag),
      make_typos_cmd, make_hawkeye_cmd(args.flag)>>

LintPc == <<"lint", "lint_format", "lint_taplo", "lint_typos", "lint_hawkeye">>

RootMissing ==
    \/ start.fs["Cargo.toml"].kind = "missing"
    \/ ~is_dir(start.dirs[S_xtask])
    \/ ~is_dir(start.dirs[S_template])

(***************************************************************************)
(* The claims.                                                             *)
(***************************************************************************)

\* C1: parse_project_name(s) returns Ok exactly when s, trimmed of its leading
\* and trailing white space, matches [A-Za-z_][A-Za-z0-9_-]*; the Ok value is
\* the trimmed string; every other input (empty after trimming, a digit
\* first, a first character that is no ASCII letter and no '_', a later
\* character outside ASCII alphanumerics, '-' and '_') gets an error.
C1_ProjectNameGrammar ==
    vals.project_name.some =>
        LET s == args.project_name.v
            r == vals.project_name.v
        IN  /\ r.ok <=> ValidProjectName(s)
            /\ r.ok => IsTrimOf(r.value, s) /\ MatchesNameGrammar(r.value)

C1_Witness ==
    /\ pc = "validate"
    /\ vals.project_name.some
    /\ vals.project_name.v.ok
    /\ Len(vals.project_name.v.value) = 2
    /\ Len(args.project_name.v) = 3

\* C10: parse_github_account(s) returns an error exactly when s is empty
\* after trimming, and otherwise Ok of the trimmed string, whatever its
\* characters.
C10_AccountNonEmpty ==
    vals.github_account.some =>
        LET s == args.github_account.v
            r == vals.github_account.v
        IN  /\ ~r.ok <=> ~ValidAccountName(s)
            /\ r.ok => IsTrimOf(r.value, s)

C10_Witness ==
    /\ pc = "validate"
    /\ vals.github_account.some
    /\ vals.github_account.v.ok
    /\ vals.github_account.v.value = <<"@">>
    /\ Len(args.github_account.v) = 3

C6_AbsentIsNoOp ==
    (/\ pc = "replace"
     /\ Len(out) >= 1
     /\ start.fs["f"].kind = "file"
     /\ ~contains(start.fs["f"].data, args.old)) =>
        /\ \A k \in 1..Len(out) : out[k] = Ok(Unit)
        /\ io.writes = 0
        /\ fs = start.fs

C6_Witness ==
    /\ pc = "replace"
    /\ Len(out) = 1
    /\ start.fs["f"].kind = "file"
    /\ start.fs["f"].readonly
    /\ start.fs["f"].data # <<>>
    /\ ~contains(start.fs["f"].data, args.old)

\* C3: once execute_bootstrap has started, the six steps are attempted once
\* each in the order root manifest, template manifest, README, semantic
\* config, lock file, directory rename; each reports one OK or ERROR; and
\* whatever a step reports, the program goes on to the next step.
C3_ReportsInOrder ==
    (args.sub = "bootstrap" /\ Started) =>
        \E k \in 0..6 :
            /\ Len(TaskReports) = k
            /\ \A i \in 1..k :
                   /\ TaskReports[i].task = StepOrder[i]
                   /\ TaskReports[i].outcome \in {"OK", "ERROR"}
            /\ IF k < 6
               THEN pc = StepPc[k + 1]
               ELSE pc \in {"print_bootstrap_complete", "returned"}

C3_NextStepFollows ==
    \A k \in 1..6 :
        pc = StepPc[k] =>
            /\ pc' = IF k < 6 THEN StepPc[k + 1] ELSE "print_bootstrap_complete"
            /\ Len(TaskReports') = k

C3_AllStepsInOrder == [](C3_ReportsInOrder) /\ [][C3_NextStepFollows]_vars

C3_Witness ==
    /\ pc = "returned"
    /\ Started
    /\ Len(TaskReports) = 6
    /\ TaskReports[1].outcome = "ERROR"
    /\ TaskReports[2].outcome = "OK"
    /\ TaskReports[6].outcome = "OK"

\* C4 as claimed: when a directory exists at the target path of the rename
\* step, the step reports an error and the directories are as they were.
C4_CollisionRefused ==
    (/\ args.sub = "bootstrap"
     /\ Started
     /\ Len(TaskReports) = 6
     /\ is_dir(start.dirs[vals.project_name.v])) =>
        /\ TaskReports[6].outcome = "ERROR"
        /\ dirs = start.dirs

\* C5 as claimed: after a confirmed run in which every step reported OK, on
\* a root manifest that held `/fast` and `template`, the manifest is the
\* original with `/fast` replaced by `/` and the account and `template` by
\* the project name, and the `template` directory is at the project name.
C5_EndToEnd ==
    (/\ args.sub = "bootstrap"
     /\ Started
     /\ pc = "returned"
     /\ \A i \in 1..Len(TaskReports) : TaskReports[i].outcome = "OK"
     /\ contains(start.fs["Cargo.toml"].data, S_fast)
     /\ contains(start.fs["Cargo.toml"].data, S_template)) =>
        /\ fs["Cargo.toml"].data =
               Substituted(start.fs["Cargo.toml"].data, vals.github_account.v, vals.project_name.v)
        /\ dirs[vals.project_name.v] = start.dirs[S_template]
        /\ vals.project_name.v # S_template => dirs[S_template] = NoEntry

\* C7: when Cargo.toml, the xtask directory or the template directory is
\* missing, bootstrap reports the error and returns: no line is read, no
\* file is read or written, no directory is renamed.
C7_RefusesOutsideProjectRoot ==
    (args.sub = "bootstrap" /\ RootMissing) =>
        /\ pc \in {"main", "exit_usage", "bootstrap_project", "returned"}
        /\ stdin = <<>>
        /\ io = NoIo
        /\ fs = start.fs
        /\ dirs = start.dirs
        /\ pc = "returned" => (Len(out) = 1 /\ out[1].kind = "error")

C7_Witness ==
    /\ args.sub = "bootstrap"
    /\ pc = "returned"
    /\ start.fs["Cargo.toml"].kind = "file"
    /\ is_dir(start.dirs[S_xtask])
    /\ ~is_dir(start.dirs[S_template])

\* C8: lint runs clippy, format, taplo, typos, hawkeye in this order, each
\* after the success of every command before it; the first command that
\* exits non-zero panics, and nothing is run after it.
C8_LintFailFast ==
    args.sub = "lint" =>
        /\ Len(Checks) <= 5
        /\ \A i \in 1..Len(Checks) : Checks[i].cmd = LintOrder[i]
        /\ \A i \in 1..Len(Runs) :
               Runs[i].status # "success" => (i = Len(Runs) /\ pc = "panicked")
        /\ \A k \in 1..5 : pc = LintPc[k] => Len(Checks) = k - 1
        /\ pc = "returned" => Len(Checks) = 5

C8_Witness ==
    /\ args.sub = "lint"
    /\ pc = "panicked"
    /\ Len(Checks) = 3
    /\ Checks[3].status = "failure"
    /\ Len(Runs) = 4

\* C9: a flag value is validated as a prompted line is: a flag value the
\* validator refuses ends the program with a usage error, nothing read or
\* changed; the project name and the account that reach execute_bootstrap
\* are trimmed, the name matching [A-Za-z_][A-Za-z0-9_-]*, the account not
\* empty, and a value given by flag is the trimmed flag value.
C9_FlagsValidatedAsPrompts ==
    args.sub = "bootstrap" =>
        /\ (/\ pc # "main"
            /\ \/ args.project_name.some /\ ~ValidProjectName(args.project_name.v)
               \/ args.github_account.some /\ ~ValidAccountName(args.github_account.v)) =>
               /\ pc = "exit_usage"
               /\ Len(out) = 1 /\ out[1].kind = "usage"
               /\ stdin = <<>> /\ io = NoIo /\ fs = start.fs /\ dirs = start.dirs
        /\ Started =>
               /\ MatchesNameGrammar(vals.project_name.v)
               /\ IsTrimOf(vals.project_name.v, vals.project_name.v)
               /\ vals.github_account.v # <<>>
               /\ IsTrimOf(vals.github_account.v, vals.github_account.v)
               /\ args.project_name.some => IsTrimOf(vals.project_name.v, args.project_name.v)
               /\ args.github_account.some => IsTrimOf(vals.github_account.v, args.github_account.v)

C9_Witness ==
    /\ args.sub = "bootstrap"
    /\ Started
    /\ args.project_name.some
    /\ args.project_name.v # vals.project_name.v
    /\ ~args.github_account.some

(***************************************************************************)
(* C11: get_valid_input, on any sequence of input lines, shows the error   *)
(* of each line the validator rejects and prompts again; it returns the    *)
(* validator's value for the first accepted line and reads no line after   *)
(* it; it never returns a rejected value; and it returns if and only if    *)
(* some line of the sequence is accepted, however many lines come before.  *)
(***************************************************************************)
Prompting == pc \in {"get_project_name", "get_github_account"}

PromptField == IF args.project_name.some THEN "github_account" ELSE "project_name"

Validated(line) ==
    IF PromptField = "project_name" THEN parse_project_name(prompt_input(line))
    ELSE parse_github_account(prompt_input(line))

Accepted == {i \in 1..Len(args.lines) : Validated(args.lines[i]).ok}

ErrorsOf(lines) == [i \in 1..Len(lines) |-> Message("error", Validated(lines[i]).error)]

C11_LoopInv ==
    LET n == Len(stdin) IN
    /\ io.lines = n
    /\ \A i \in 1..n : stdin[i] = IF i <= Len(args.lines) THEN args.lines[i] ELSE <<>>
    /\ IF Prompting
       THEN /\ \A i \in 1..n : ~Validated(stdin[i]).ok
            /\ out = ErrorsOf(stdin)
            /\ ~vals[PromptField].some
       ELSE /\ pc = "preview_and_confirm"
            /\ Accepted # {}
            /\ n \in Accepted
            /\ \A i \in Accepted : n <= i
            /\ out = ErrorsOf(SubSeq(stdin, 1, n - 1))
            /\ vals[PromptField] = Some(Validated(stdin[n]).value)
            /\ IF PromptField = "project_name"
               THEN ValidProjectName(vals[PromptField].v)
               ELSE ValidAccountName(vals[PromptField].v)

C11_PromptUntilValid ==
    /\ [](C11_LoopInv)
    /\ (Accepted # {}) ~> (pc = "preview_and_confirm")
    /\ (Accepted = {}) => [](Prompting)

\* Two rejected lines, the third accepted and returned, a fourth left unread.
C11_Witness ==
    /\ pc = "preview_and_confirm"
    /\ Len(args.lines) = 4
    /\ Len(stdin) = 3
    /\ Len(out) = 2
    /\ out[1] # out[2]

(***************************************************************************)
(* C12: once the inputs are validated, the six steps run only if the       *)
(* answer to the confirmation prompt, trimmed and in any letter case, is   *)
(* y or yes; on every other answer, the empty line included, the run is    *)
(* cancelled: no file is read or written, no directory is renamed.         *)
(***************************************************************************)
IsYes(line) ==
    \E t \in {<<"y">>, <<"Y">>} \cup
              {<<a, b, c>> : a \in {"y", "Y"}, b \in {"e", "E"}, c \in {"s", "S"}} :
        IsTrimOf(t, line)

Untouched ==
    /\ fs = start.fs
    /\ dirs = start.dirs
    /\ io.reads = 0
    /\ io.writes = 0
    /\ TaskReports = <<>>

C12_ConfirmationGate ==
    IF pc = "preview_and_confirm"
    THEN Untouched /\ stdin = <<>>
    ELSE LET answer == stdin[Len(stdin)] IN
         IF IsYes(answer)
         THEN /\ Started
              /\ pc \in {StepPc[k] : k \in 1..6} \cup {"print_bootstrap_complete", "returned"}
              /\ pc = "returned" => Len(TaskReports) = 6
         ELSE /\ pc = "returned"
              /\ Untouched
              /\ ~Started
              /\ out[Len(out)] = Message("info", "Cancelled.")

\* An empty answer cancelled the run.
C12_Witness ==
    /\ pc = "returned"
    /\ stdin = <<<<>>>>
    /\ out[Len(out)] = Message("info", "Cancelled.")
    /\ is_dir(dirs[S_template])

(***************************************************************************)
(* C13: once a run has renamed `template` to a project name other than     *)
(* `template`, every later invocation of bootstrap from the same directory *)
(* finds no `template` directory, fails check_project_root, and reads and  *)
(* writes no file and renames no directory: no substitution is applied a   *)
(* second time.                                                            *)
(***************************************************************************)
LastInvoked ==
    IF \E i \in 1..Len(out) : out[i] = Invoked
    THEN CHOOSE i \in 1..Len(out) : out[i] = Invoked /\ \A j \in (i + 1)..Len(out) : out[j] # Invoked
    ELSE 0

\* An earlier run showed a project name other than `template` in its preview
\* and then reported OK for the rename step.
EarlierRenamed ==
    \E j \in 1..LastInvoked, i \in 1..LastInvoked :
        /\ j < i
        /\ out[j].kind = "preview"
        /\ out[j].text[1] # S_template
        /\ \A k \in j..i : out[k] # Invoked
        /\ out[i] = print_update_result("template/", Ok(Unit))

C13_OneShot ==
    EarlierRenamed =>
        /\ ~is_dir(dirs[S_template])
        /\ fs = start.fs
        /\ dirs = start.dirs
        /\ io = NoIo
        /\ \A k \in (LastInvoked + 1)..Len(out) : out[k].kind = "error"
        /\ pc \in {"main", "bootstrap_project", "returned"}
        /\ pc = "returned" =>
               out[Len(out)] =
                   Message("error", <<"The 'template' directory not found. This project may have already been bootstrapped.">>)

\* A later invocation, after a run that renamed `template`, has returned.
C13_Witness ==
    /\ EarlierRenamed
    /\ pc = "returned"
    /\ out[Len(out)].kind = "error"
    /\ is_dir(dirs[S_demo])
    /\ fs["Cargo.toml"].kind = "file"
    /\ fs["Cargo.toml"].data # TemplateContent["Cargo.toml"]

(***************************************************************************)
(* C14: in the steps on the root manifest and on the README, the second    *)
(* substitution is attempted only if the first returned success; the step  *)
(* reports OK only if both succeeded, and otherwise the error of the first *)
(* substitution that failed, and the file is as the substitutions that     *)
(* completed before the failure left it.                                   *)
(***************************************************************************)
TwoSubstitutions(file, old, new) ==
    LET first == replace_in_file(fs, file, S_fast, <<"/">> \o vals.github_account.v)
        second == replace_in_file(first.files, file, old, new)
        report == out'[Len(out')]
    IN  /\ Len(out') = Len(out) + 1
        /\ \A g \in Files \ {file} : fs'[g] = fs[g]
        /\ IF ~first.result.ok
           THEN /\ report = print_update_result(file, first.result)
                /\ report.outcome = "ERROR"
                /\ fs'[file] = fs[file]
                /\ io'.reads = io.reads + 1
                /\ io'.writes = io.writes + first.writes
           ELSE /\ io'.reads = io.reads + 2
                /\ io'.writes = io.writes + first.writes + second.writes
                /\ IF ~second.result.ok
                   THEN /\ report = print_update_result(file, second.result)
                        /\ report.outcome = "ERROR"
                        /\ fs'[file] = first.files[file]
                   ELSE /\ report = print_update_result(file, Ok(Unit))
                        /\ report.outcome = "OK"
                        /\ fs'[file] = second.files[file]

C14_Step ==
    /\ pc = "update_root_cargo_toml" =>
           TwoSubstitutions("Cargo.toml", S_template, vals.project_name.v)
    /\ pc = "update_readme" =>
           TwoSubstitutions("README.md", S_slash_template, <<"/">> \o vals.project_name.v)

C14_SecondOnlyAfterFirst == [][C14_Step]_vars

\* On a read-only README without `/fast` the first substitution was a
\* success without a write and the second failed on its write.
C14_Witness ==
    /\ pc = "update_semantic_yml"
    /\ start.fs["README.md"].kind = "file"
    /\ start.fs["README.md"].readonly
    /\ ~contains(start.fs["README.md"].data, S_fast)
    /\ contains(start.fs["README.md"].data, S_slash_template)
    /\ TaskReports[3].outcome = "ERROR"
    /\ io.reads = 5
    /\ fs["README.md"] = start.fs["README.md"]

====
